---- MODULE Spec2Model ----
(***************************************************************************)
(* Cloth simulation host drivers: ClothApp (src/help/cloth_app.rs) and     *)
(* InstanceApp (src/instances_app.rs).  Each frame the host encodes one    *)
(* compute pass over the vertex storage buffer followed by a copy of the   *)
(* storage buffer into the vertex buffer the renderer draws from.          *)
(*                                                                         *)
(* Numbers are fixed point: f32 quantities are held as integers in         *)
(* thousandths (Unit), products and quotients truncate toward zero.        *)
(* The WGSL kernels (compute_shader.wgsl, computeShader.wgsl) are not part *)
(* of the sources; Kernel follows section 4.3 of the design document.      *)
(***************************************************************************)
EXTENDS Integers, Sequences, FiniteSets, TLC

VARIABLES
    app,               \* which binary runs: "ClothApp" or "InstanceApp"
    lifecycle,         \* outcome of construction: "running" or "config_error"
    environment_data,  \* CPU-side parameter struct(s) held by the app
    uniform,           \* parameter bytes in the uniform buffer(s) bound to the compute pass
    buffers,           \* GPU buffers by name -> array of Vertex
    pc,                \* GPU queue position: "idle" or "compute"
    done,              \* vertex indices whose invocation of the current dispatch has run
    invoked,           \* per vertex index: number of invocations in the current dispatch
    oob_done,          \* the invocations with id >= vertex count have run
    steps,             \* number of update calls whose compute pass has begun
    delta_time,        \* delta_time argument of the update call being executed
    submitted,         \* number of update calls the host has submitted
    queue,             \* submissions not yet begun: delta_time and uniform bytes of each
    gen_start,         \* history: storage contents when the latest dispatch began
    generations,       \* history: storage contents after each completed compute pass
    ref_storage,       \* second run on the same inputs, invocations scheduled in index order
    compute_bind_group,\* buffer bound at binding 0 of the compute pass
    prev_binding,      \* history: buffers read/written by the previous dispatch
    camera_radius,     \* orbit camera radius (input only)
    rendered,          \* vertex arrays drawn by the latest render call (none before the first)
    index_buffer,      \* GPU index buffer of the cloth: sequence of vertex indices
    drawn,             \* index count of the latest draw_indexed of the cloth (0 before the first)
    ctor               \* App::new: loop variables and the sizes it derives

vars == << app, lifecycle, environment_data, uniform, buffers, pc, done, invoked,
           oob_done, steps, delta_time, gen_start, generations, ref_storage,
           compute_bind_group, prev_binding, camera_radius, rendered,
           submitted, queue, index_buffer, drawn, ctor >>

----------------------------------------------------------------------------
(* Bounds of the model *)

\* update calls explored
MaxSteps == 2

\* the 60 x 60 cloth of ClothApp, scaled down
ClothW == 2
ClothH == 2

\* columns of the wider scaled cloth, and the update calls explored on it
WideW == 3
MaxWideSteps == 1

\* vertices kept of the icosphere(2) obstacle mesh
BallVerts == 2

\* largest camera radius explored
MaxCameraRadius == 4

\* tolerance (thousandths) of the distance comparisons
Tolerance == 5

\* frame times handed to update: 0.016 s and 0.5 s
DtInputs == {16, 500}

\* sphere radii handed to Sphere::new in the constructor specification
RadiusInputs == {-1000, 1490}

----------------------------------------------------------------------------
(* Fixed-point arithmetic on scalars and 3-vectors *)

\* resolution of the fixed-point representation: 1.0 is held as Unit
Unit == 10 * 10 * 10

TDiv(x, y) == IF x >= 0 THEN x \div y ELSE -((-x) \div y)

Mul(a, b) == TDiv(a * b, Unit)

Div(a, b) == TDiv(a * Unit, b)

RECURSIVE ISqrtIter(_, _, _)
ISqrtIter(n, lo, hi) ==
    IF lo >= hi THEN lo
    ELSE LET mid == (lo + hi + 1) \div 2
         IN IF mid * mid <= n THEN ISqrtIter(n, mid, hi) ELSE ISqrtIter(n, lo, mid - 1)

ISqrt(n) == ISqrtIter(n, 0, 46340)

VAdd(a, b) == << a[1] + b[1], a[2] + b[2], a[3] + b[3] >>

VSub(a, b) == << a[1] - b[1], a[2] - b[2], a[3] - b[3] >>

VScale(a, k) == << Mul(a[1], k), Mul(a[2], k), Mul(a[3], k) >>

VDivS(a, k) == << Div(a[1], k), Div(a[2], k), Div(a[3], k) >>

Dot(a, b) == Mul(a[1], b[1]) + Mul(a[2], b[2]) + Mul(a[3], b[3])

Norm(a) == ISqrt(a[1] * a[1] + a[2] * a[2] + a[3] * a[3])

Normalize(a) == VDivS(a, Norm(a))

Zero3 == << 0, 0, 0 >>

----------------------------------------------------------------------------
(* Grid topology *)

VertexIds(n) == 0 .. (n - 1)

\* neighbour offsets <<d_row, d_col>> of the three spring classes, in the
\* order the kernel visits them
AllSprings ==
    << [class |-> "structural", off |-> << -1, 0 >>],
       [class |-> "structural", off |-> << 1, 0 >>],
       [class |-> "structural", off |-> << 0, -1 >>],
       [class |-> "structural", off |-> << 0, 1 >>],
       [class |-> "shear", off |-> << -1, -1 >>],
       [class |-> "shear", off |-> << -1, 1 >>],
       [class |-> "shear", off |-> << 1, -1 >>],
       [class |-> "shear", off |-> << 1, 1 >>],
       [class |-> "bending", off |-> << -2, 0 >>],
       [class |-> "bending", off |-> << 2, 0 >>],
       [class |-> "bending", off |-> << 0, -2 >>],
       [class |-> "bending", off |-> << 0, 2 >> ] >>

RowOf(i, cols) == i \div cols

ColOf(i, cols) == i % cols

InGrid(i, off, rows, cols) ==
    /\ RowOf(i, cols) + off[1] \in 0 .. (rows - 1)
    /\ ColOf(i, cols) + off[2] \in 0 .. (cols - 1)

NeighbourIndex(i, off, cols) == (RowOf(i, cols) + off[1]) * cols + (ColOf(i, cols) + off[2])

\* the springs incident on vertex i: those whose far end is inside the grid
ValidSprings(i, rows, cols) ==
    SelectSeq(AllSprings, LAMBDA s : InGrid(i, s.off, rows, cols))

Neighbours(i, rows, cols) ==
    { NeighbourIndex(i, AllSprings[k].off, cols) :
        k \in { j \in 1 .. Len(AllSprings) : InGrid(i, AllSprings[j].off, rows, cols) } }

----------------------------------------------------------------------------
(* ClothApp: construction *)

\* let step = 0.05
step == 50

\* widths of the scaled cloths that are built
ClothWidths == {ClothW, WideW}

\* width_range / height_range = -1.5..1.5, scaled to w columns / h rows
width_range(w) == [start |-> -((w * step) \div 2), end |-> (w * step) \div 2]

height_range(h) == [start |-> -((h * step) \div 2), end |-> (h * step) \div 2]

x_mid(w) == TDiv(width_range(w).start + width_range(w).end - step, 2)

z_mid(h) == TDiv(height_range(h).start + height_range(h).end - step, 2)

\* values taken by the loop variable of `while x < end { ...; x += step }`
RECURSIVE LoopValues(_, _)
LoopValues(x, end) == IF x < end THEN << x >> \o LoopValues(x + step, end) ELSE << >>

\* positions, row by row (outer loop z, inner loop x)
positions(w, h) ==
    LET xs == LoopValues(width_range(w).start, width_range(w).end)
        zs == LoopValues(height_range(h).start, height_range(h).end)
    IN [ k \in 0 .. (Len(zs) * Len(xs) - 1) |->
           << xs[(k % Len(xs)) + 1] - x_mid(w), 0, zs[(k \div Len(xs)) + 1] - z_mid(h) >> ]

\* Vertex of cloth_app.rs: position and velocity (colour and padding never change)
cloth_vertices(w, h) ==
    [ k \in DOMAIN positions(w, h) |-> [position |-> positions(w, h)[k], velocity |-> Zero3] ]

gravity == << 0, -1000, 0 >>
sphere_damping == 300
structural_stiffness == 100
shear_stiffness == 100
bending_stiffness == 100
\* variant: massless vertices
vertex_mass_Zero == 0 * Unit

vertex_mass == 500
vertex_damping == 600
structural_max_length == 50
shear_max_length == 75
bending_max_length == 100

\* grid_width / grid_height = 60, scaled with the grid
grid_width == ClothW

grid_height == ClothH

EnvironmentData_new(center, radius, dt) ==
    [ sphere_center |-> center,
      sphere_radius |-> radius,
      gravity |-> gravity,
      delta_time |-> dt,
      sphere_damping |-> sphere_damping,
      structural_stiffness |-> structural_stiffness,
      shear_stiffness |-> shear_stiffness,
      bending_stiffness |-> bending_stiffness,
      vertex_mass |-> vertex_mass,
      vertex_damping |-> vertex_damping,
      structural_max_length |-> structural_max_length,
      shear_max_length |-> shear_max_length,
      bending_max_length |-> bending_max_length,
      grid_width |-> grid_width,
      grid_height |-> grid_height ]

\* variant: staging the time step also scales gravity by it
update_delta_time_ScalesGravity(env, dt) ==
    [env EXCEPT !.delta_time = dt, !.gravity = VScale(@, dt)]

update_delta_time(env, dt) == [env EXCEPT !.delta_time = dt]

\* unit directions standing for the icosphere(2) mesh
BallDirs ==
    << << 0, Unit, 0 >>, << 0, -Unit, 0 >>, << Unit, 0, 0 >>,
       << -Unit, 0, 0 >>, << 0, 0, Unit >>, << 0, 0, -Unit >> >>

BallDir(k) == BallDirs[(k % Len(BallDirs)) + 1]

\* Sphere::new: the obstacle mesh and the environment data; no argument is checked
Sphere_new(new_radius, new_center) ==
    [ vertices |-> [ k \in VertexIds(BallVerts) |->
                       [position |-> VAdd(VScale(BallDir(k), new_radius), new_center),
                        velocity |-> Zero3] ],
      environment_data |-> EnvironmentData_new(new_center, new_radius, 0) ]

sphere_radius == 1000

\* variant: the obstacle is centred on the cloth plane
sphere_center_AtOrigin == Zero3

sphere_center == << 0, -1500, 0 >>

----------------------------------------------------------------------------
(* ClothApp: the position loops in f32 *)

\* An f32 is held exactly, as an integer count of 2^-29: every value the
\* loops meet is a multiple of it and smaller than 4.
Pow2(k) == 2 ^ k

\* round to nearest, ties to even, to the 24 significant bits of an f32
F32Round(v) ==
    LET m == IF v < 0 THEN -v ELSE v
    IN IF m < Pow2(24) THEN v
       ELSE LET e == CHOOSE k \in 1 .. 7 : Pow2(23 + k) <= m /\ (k = 7 \/ m < Pow2(24 + k))
                q == Pow2(e)
                r == m % q
                lo == m - r
                up == \/ 2 * r > q
                      \/ 2 * r = q /\ (lo \div q) % 2 = 1
                mag == IF up THEN lo + q ELSE lo
            IN IF v < 0 THEN -mag ELSE mag

F32Add(a, b) == F32Round(a + b)

F32Sub(a, b) == F32Round(a - b)

\* (a / b) as usize for a >= 0, b > 0: the f32 quotient, rounded to nearest,
\* then truncated
F32DivAsUsize(a, b) ==
    LET q == a \div b
        r == a % b
        e == CHOOSE k \in -1 .. 29 : Pow2(k + 1) > q /\ (k = -1 \/ Pow2(k) <= q)
        \* half the spacing of the f32 values just below q + 1, as a divisor
        half_ulp_inv == Pow2(24 - e)
    IN IF r # 0 /\ b - r <= b \div half_ulp_inv THEN q + 1 ELSE q

\* let step = 0.05, as the f32 it is stored in
step_f32 == 26843546

\* the range -a .. a that holds n steps; -1.5 .. 1.5 is F32Range(60)
F32Range(n) ==
    LET half == F32Round((n * step_f32) \div 2)
    IN [start |-> -half, end |-> half]

\* let width = ((width_range.end - width_range.start) / step) as usize
GridSizeOf(range) == F32DivAsUsize(F32Sub(range.end, range.start), step_f32)

\* let x_mid = (width_range.start + width_range.end - step) / 2.0
MidOf(range) == TDiv(F32Sub(F32Add(range.start, range.end), step_f32), 2)

\* variant: the second triangle repeats bottom_left
CellIndices_Degenerate(top_left, width) ==
    LET top_right == top_left + 1
        bottom_left == top_left + width
        bottom_right == bottom_left + 1
    IN << top_left, bottom_left, bottom_right, top_left, bottom_left, top_right >>

\* the six indices pushed for the cell whose top-left vertex is top_left
CellIndices(top_left, width) ==
    LET top_right == top_left + 1
        bottom_left == top_left + width
        bottom_right == bottom_left + 1
    IN << top_left, bottom_left, bottom_right, top_left, bottom_right, top_right >>

\* for z in 0..(height - 1) { for x in 0..(width - 1) { ... } }: the k-th index
\* pushed belongs to cell (k - 1) / 6 in row-major order of the cells
indices(width, height) ==
    [ k \in 1 .. 6 * (height - 1) * (width - 1) |->
        LET cell == (k - 1) \div 6
            z == cell \div (width - 1)
            x == cell % (width - 1)
        IN CellIndices(z * width + x, width)[((k - 1) % 6) + 1] ]

----------------------------------------------------------------------------
(* InstanceApp: construction *)

fabric_side_length == 4000
grid_rows == 2
grid_cols == 2
ball_radius == 1200
spring_stiffness == 50000
rest_length == 100

\* (col as f32 / (grid_cols - 1) as f32) * fabric_side_length - fabric_side_length / 2.0;
\* with a single column the quotient is 0.0 / 0.0
FabricCoordinate(k, count) ==
    IF count = 1 THEN "NaN"
    ELSE Mul(Div(k * Unit, (count - 1) * Unit), fabric_side_length)
           - TDiv(fabric_side_length, 2)

\* the closure of the flat_map: the vertex of (row, col)
FabricVertex(row, col, rows, cols) ==
    [position |-> << FabricCoordinate(col, cols), 2000, FabricCoordinate(row, rows) >>,
     mass |-> 1000, velocity |-> Zero3, fixed |-> 0]

fabric_vertices ==
    [ k \in VertexIds(grid_rows * grid_cols) |->
        FabricVertex(k \div grid_cols, k % grid_cols, grid_rows, grid_cols) ]

\* for row in 0..grid_rows - 1 { for col in 0..grid_cols - 1 { ... } }
fabric_indices(rows, cols) ==
    [ k \in 1 .. 6 * (rows - 1) * (cols - 1) |->
        LET cell == (k - 1) \div 6
            row == cell \div (cols - 1)
            col == cell % (cols - 1)
        IN CellIndices(row * cols + col, cols)[((k - 1) % 6) + 1] ]

ball_vertices ==
    [ k \in VertexIds(BallVerts) |->
        [position |-> VScale(BallDir(k), ball_radius), mass |-> 1000,
         velocity |-> Zero3, fixed |-> 1000] ]

SphereData_new(center, radius) == [center |-> center, radius |-> radius]

sim_params ==
    [ grid_rows |-> grid_rows, grid_cols |-> grid_cols,
      spring_stiffness |-> spring_stiffness, rest_length |-> rest_length ]

----------------------------------------------------------------------------
(* Force/integration kernel (design document section 4.3) *)

\* quantities the InstanceApp uniforms do not carry: the kernel's own values
shader_defaults ==
    [ gravity |-> << 0, -9800, 0 >>, delta_time |-> 16,
      vertex_damping |-> 0, sphere_damping |-> 0 ]

\* what the kernel reads from the uniform buffer(s) of the running app
KernelParams(a, u) ==
    IF a = "ClothApp"
    THEN [ center |-> u.sphere_center, radius |-> u.sphere_radius,
           gravity |-> u.gravity, dt |-> u.delta_time,
           sphere_damping |-> u.sphere_damping, damping |-> u.vertex_damping,
           stiffness |-> [structural |-> u.structural_stiffness,
                          shear |-> u.shear_stiffness,
                          bending |-> u.bending_stiffness],
           rest |-> [structural |-> step, shear |-> ISqrt(2 * step * step),
                     bending |-> 2 * step],
           clamp |-> TRUE,
           maxlen |-> [structural |-> u.structural_max_length,
                       shear |-> u.shear_max_length,
                       bending |-> u.bending_max_length],
           rows |-> u.grid_height, cols |-> u.grid_width ]
    ELSE [ center |-> u.sphere_data.center, radius |-> u.sphere_data.radius,
           gravity |-> shader_defaults.gravity, dt |-> shader_defaults.delta_time,
           sphere_damping |-> shader_defaults.sphere_damping,
           damping |-> shader_defaults.vertex_damping,
           stiffness |-> [structural |-> u.sim_params.spring_stiffness,
                          shear |-> u.sim_params.spring_stiffness,
                          bending |-> u.sim_params.spring_stiffness],
           rest |-> [structural |-> u.sim_params.rest_length,
                     shear |-> u.sim_params.rest_length,
                     bending |-> u.sim_params.rest_length],
           clamp |-> FALSE,
           maxlen |-> [structural |-> 0, shear |-> 0, bending |-> 0],
           rows |-> u.sim_params.grid_rows, cols |-> u.sim_params.grid_cols ]

VertexMass(a, v, u) == IF a = "ClothApp" THEN u.vertex_mass ELSE v.mass

IsFixed(a, v) == IF a = "ClothApp" THEN FALSE ELSE v.fixed # 0

\* step 2: spring force on a vertex at p from springs k .. Len(springs)
RECURSIVE SpringForce(_, _, _, _, _, _)
SpringForce(buf, i, p, springs, P, k) ==
    IF k > Len(springs) THEN Zero3
    ELSE LET s == springs[k]
             d == VSub(p, buf[NeighbourIndex(i, s.off, P.cols)].position)
             len == Norm(d)
             rest_f == SpringForce(buf, i, p, springs, P, k + 1)
         IN IF len > 0
            THEN VAdd(VScale(Normalize(d),
                             -Mul(P.stiffness[s.class], len - P.rest[s.class])),
                      rest_f)
            ELSE rest_f

\* step 6: project p back onto each over-stretched spring in turn
RECURSIVE StretchClamp(_, _, _, _, _, _)
StretchClamp(buf, i, p, springs, P, k) ==
    IF k > Len(springs) THEN p
    ELSE LET s == springs[k]
             q == buf[NeighbourIndex(i, s.off, P.cols)].position
             d == VSub(p, q)
         IN IF Norm(d) > P.maxlen[s.class]
            THEN StretchClamp(buf, i, VAdd(q, VScale(Normalize(d), P.maxlen[s.class])),
                              springs, P, k + 1)
            ELSE StretchClamp(buf, i, p, springs, P, k + 1)

\* step 7: push a vertex inside the sphere to its surface
SphereCollision(p, vel, P) ==
    LET delta == VSub(p, P.center)
    IN IF Norm(delta) < P.radius
       THEN LET n == IF Norm(delta) = 0 THEN << 0, Unit, 0 >> ELSE Normalize(delta)
                tangential == VSub(vel, VScale(n, Dot(vel, n)))
            IN [position |-> VAdd(P.center, VScale(n, P.radius)),
                velocity |-> VScale(tangential, Unit - P.sphere_damping)]
       ELSE [position |-> p, velocity |-> vel]

\* the new state of vertex i, computed from the array buf the kernel reads
Kernel(a, buf, i, u) ==
    LET P == KernelParams(a, u)
        v == buf[i]
        springs == ValidSprings(i, P.rows, P.cols)
        mass == VertexMass(a, v, u)
        f == VAdd(VAdd(SpringForce(buf, i, v.position, springs, P, 1),
                       VScale(P.gravity, mass)),
                  VScale(v.velocity, -P.damping))
        vel1 == VAdd(v.velocity, VScale(VDivS(f, mass), P.dt))
        pos1 == VAdd(v.position, VScale(vel1, P.dt))
        pos2 == IF P.clamp THEN StretchClamp(buf, i, pos1, springs, P, 1) ELSE pos1
        hit == SphereCollision(pos2, vel1, P)
    IN IF IsFixed(a, v) THEN v
       ELSE [v EXCEPT !.position = hit.position, !.velocity = hit.velocity]

----------------------------------------------------------------------------
(* Application state after construction *)

\* App::new called for a grid of rows x cols: the ranges (ClothApp) or the
\* grid_rows, grid_cols constants (InstanceApp), the loop variables at the
\* head of the position loops, and the sizes not yet derived
CtorStart(a, rows, cols) ==
    [ kind |-> a,
      pc |-> "positions",
      width_range |-> IF a = "ClothApp" THEN F32Range(cols) ELSE [start |-> 0, end |-> 0],
      height_range |-> IF a = "ClothApp" THEN F32Range(rows) ELSE [start |-> 0, end |-> 0],
      x |-> IF a = "ClothApp" THEN F32Range(cols).start ELSE 0,
      z |-> IF a = "ClothApp" THEN F32Range(rows).start ELSE 0,
      row |-> 0,
      col |-> 0,
      n |-> 0,
      last |-> << >>,
      width |-> IF a = "ClothApp" THEN 0 ELSE cols,
      height |-> IF a = "ClothApp" THEN 0 ELSE rows,
      iz |-> 0,
      ix |-> 0,
      num_indices |-> 0,
      grid_width |-> cols,
      grid_height |-> rows,
      workgroup_count |-> 0,
      copy_count |-> 0 ]

\* App::new returned: the sizes of the grid it built
CtorDone(a, rows, cols, n, num_indices) ==
    [ CtorStart(a, rows, cols) EXCEPT !.pc = "running", !.n = n, !.row = rows,
                                      !.width = cols, !.height = rows,
                                      !.num_indices = num_indices ]

\* ClothApp::new with the sphere radius and the scaled width as parameters;
\* grid_width describes the cloth that was built, as 60 = 3.0 / 0.05 does.
\* Buffer names are ClothApp's; InstanceApp calls them fabric_storage_buffer,
\* fabric_vertex_buffer.
ClothApp_new(radius, w) ==
    LET sphere == Sphere_new(radius, sphere_center)
        env == [sphere.environment_data EXCEPT !.grid_width = w]
    IN [ lifecycle |-> "running",
         environment_data |-> env,
         uniform |-> env,
         buffers |-> [ vertex_storage_buffer |-> cloth_vertices(w, ClothH),
                       vertex_buffer |-> cloth_vertices(w, ClothH),
                       sphere_vertex_buffer |-> sphere.vertices ],
         compute_bind_group |-> [storage |-> "vertex_storage_buffer"],
         camera_radius |-> 3,
         index_buffer |-> indices(w, ClothH),
         ctor |-> CtorDone("ClothApp", ClothH, w, Cardinality(DOMAIN cloth_vertices(w, ClothH)),
                           Len(indices(w, ClothH))) ]

InstanceApp_new ==
    LET params == [sim_params |-> sim_params,
                   sphere_data |-> SphereData_new(Zero3, ball_radius)]
    IN [ lifecycle |-> "running",
         environment_data |-> params,
         uniform |-> params,
         buffers |-> [ vertex_storage_buffer |-> fabric_vertices,
                       vertex_buffer |-> fabric_vertices,
                       sphere_vertex_buffer |-> ball_vertices ],
         compute_bind_group |-> [storage |-> "vertex_storage_buffer"],
         camera_radius |-> 3,
         index_buffer |-> fabric_indices(grid_rows, grid_cols),
         ctor |-> CtorDone("InstanceApp", grid_rows, grid_cols,
                           Cardinality(DOMAIN fabric_vertices),
                           Len(fabric_indices(grid_rows, grid_cols))) ]

Constructed(a, radius, w) ==
    IF a = "ClothApp" THEN ClothApp_new(radius, w) ELSE InstanceApp_new

InitFrom(a, c) ==
    /\ app = a
    /\ lifecycle = c.lifecycle
    /\ environment_data = c.environment_data
    /\ uniform = c.uniform
    /\ buffers = c.buffers
    /\ compute_bind_group = c.compute_bind_group
    /\ camera_radius = c.camera_radius
    /\ pc = "idle"
    /\ done = {}
    /\ invoked = [i \in DOMAIN c.buffers.vertex_storage_buffer |-> 0]
    /\ oob_done = FALSE
    /\ steps = 0
    /\ delta_time = 0
    /\ gen_start = c.buffers.vertex_storage_buffer
    /\ generations = {c.buffers.vertex_storage_buffer}
    /\ ref_storage = c.buffers.vertex_storage_buffer
    /\ prev_binding = [read |-> "none", write |-> "none"]
    /\ rendered = {}
    /\ submitted = 0
    /\ queue = << >>
    /\ index_buffer = c.index_buffer
    /\ drawn = 0
    /\ ctor = c.ctor

\* the two binaries as built: main.rs and help/src/main.rs
Init ==
    \/ \E w \in ClothWidths : InitFrom("ClothApp", Constructed("ClothApp", sphere_radius, w))
    \/ InitFrom("InstanceApp", Constructed("InstanceApp", ball_radius, grid_cols))

\* Sphere::new / EnvironmentData::new called with any radius
InitCfg ==
    \/ \E r \in RadiusInputs, w \in ClothWidths :
           InitFrom("ClothApp", Constructed("ClothApp", r, w))
    \/ InitFrom("InstanceApp", Constructed("InstanceApp", ball_radius, grid_cols))

----------------------------------------------------------------------------
(* One update: compute pass, then copy, in one submission to the queue *)

\* the storage binding is read_only: false; the kernel reads and writes it
KernelReadBuffer == compute_bind_group.storage

KernelWriteBuffer == compute_bind_group.storage

NumVertices == Cardinality(DOMAIN buffers.vertex_storage_buffer)

\* @workgroup_size of the two kernels
WorkgroupSize(a) == IF a = "ClothApp" THEN 1 ELSE 64

\* variant: one workgroup more than the quotient
CeilDiv_ExtraGroup(total_threads, workgroup_size) == total_threads \div workgroup_size + 1

\* variant: the workgroup count rounds down
CeilDiv_RoundsDown(total_threads, workgroup_size) == total_threads \div workgroup_size

\* (total_threads + workgroup_size - 1) / workgroup_size
CeilDiv(total_threads, workgroup_size) ==
    (total_threads + workgroup_size - 1) \div workgroup_size

\* argument of dispatch_workgroups for n vertices in a grid of rows x cols
WorkgroupCountOf(a, n, rows, cols) ==
    IF a = "ClothApp" THEN n ELSE CeilDiv(cols * rows, WorkgroupSize(a))

WorkgroupCount(a) ==
    IF a = "ClothApp" THEN WorkgroupCountOf(a, NumVertices, 0, 0)
    ELSE WorkgroupCountOf(a, NumVertices, environment_data.sim_params.grid_rows,
                          environment_data.sim_params.grid_cols)

InvocationIds == 0 .. (WorkgroupCount(app) * WorkgroupSize(app) - 1)

\* invocations whose id is a vertex index of the kernel's grid
KernelGrid ==
    LET P == KernelParams(app, uniform) IN VertexIds(P.rows * P.cols)

InRangeIds == InvocationIds \cap KernelGrid \cap DOMAIN buffers.vertex_storage_buffer

OutOfRangeIds == InvocationIds \ InRangeIds

\* update calls explored on the cloth at hand
StepCap == IF NumVertices > ClothW * ClothH THEN MaxWideSteps ELSE MaxSteps

\* App::update(delta_time): stage the parameters, encode the compute pass and
\* the copy, and submit them; the host does not wait for the queue
Update(dt) ==
    /\ lifecycle = "running"
    /\ submitted < StepCap
    /\ environment_data' = IF app = "ClothApp"
                           THEN update_delta_time(environment_data, dt)
                           ELSE environment_data
    /\ queue' = Append(queue, [dt |-> dt,
                               uniform |-> IF app = "ClothApp" THEN environment_data'
                                           ELSE uniform])
    /\ submitted' = submitted + 1
    /\ UNCHANGED << index_buffer, drawn, ctor, app, lifecycle, uniform, buffers, pc, done, invoked, oob_done, steps,
                    delta_time, gen_start, generations, ref_storage, compute_bind_group,
                    prev_binding, camera_radius, rendered >>

\* variant: the queue starts a submission without waiting for the one before
QueueReady_NoWait == TRUE

\* queue.submit: submissions execute in the order submitted, one after another
QueueReady == pc = "idle"

\* the queue begins the compute pass of the oldest submission
BeginComputePass ==
    /\ QueueReady
    /\ queue # << >>
    /\ uniform' = Head(queue).uniform
    /\ delta_time' = Head(queue).dt
    /\ queue' = Tail(queue)
    /\ compute_bind_group' = [storage |-> "vertex_storage_buffer"]
    /\ prev_binding' = IF steps = 0 THEN prev_binding
                       ELSE [read |-> KernelReadBuffer, write |-> KernelWriteBuffer]
    /\ pc' = "compute"
    /\ done' = {}
    /\ invoked' = [i \in DOMAIN invoked |-> 0]
    /\ oob_done' = FALSE
    /\ steps' = steps + 1
    /\ gen_start' = buffers.vertex_storage_buffer
    /\ UNCHANGED << index_buffer, drawn, ctor, app, lifecycle, environment_data, buffers, generations, ref_storage,
                    camera_radius, rendered, submitted >>

\* the second run schedules its invocations in index order: its next one
InOrderId == Cardinality(done)

\* one kernel invocation with a vertex index as its id
Invoke(i) ==
    /\ pc = "compute"
    /\ i \in InRangeIds \ done
    /\ buffers' = [buffers EXCEPT ![KernelWriteBuffer][i] =
                       Kernel(app, buffers[KernelReadBuffer], i, uniform)]
    /\ done' = done \cup {i}
    /\ invoked' = [invoked EXCEPT ![i] = @ + 1]
    /\ generations' = IF done' = InRangeIds
                      THEN generations \cup {buffers'.vertex_storage_buffer}
                      ELSE generations
    /\ ref_storage' = [ref_storage EXCEPT ![InOrderId] =
                           Kernel(app, ref_storage, InOrderId, uniform)]
    /\ UNCHANGED << index_buffer, drawn, ctor, app, lifecycle, environment_data, uniform, pc, oob_done, steps,
                    delta_time, gen_start, compute_bind_group,
                    prev_binding, camera_radius, rendered, submitted, queue >>

\* the invocations past the last vertex touch nothing
InvokeOutOfRange ==
    /\ pc = "compute"
    /\ OutOfRangeIds # {}
    /\ ~oob_done
    /\ oob_done' = TRUE
    /\ UNCHANGED << index_buffer, drawn, ctor, app, lifecycle, environment_data, uniform, buffers, pc, done,
                    invoked, steps, delta_time, gen_start, generations, ref_storage,
                    compute_bind_group, prev_binding, camera_radius, rendered,
                    submitted, queue >>

\* variant: the copy is not ordered after the compute pass
ComputePassDone_CopyEarly == TRUE

ComputePassDone ==
    /\ done = InRangeIds
    /\ OutOfRangeIds # {} => oob_done

\* variant: the copy stops one vertex short
CopyCountOf_OneShort(a, n, rows, cols) == IF a = "ClothApp" THEN n - 1 ELSE rows * cols - 1

\* number of vertices covered by copy_buffer_to_buffer
CopyCountOf(a, n, rows, cols) == IF a = "ClothApp" THEN n ELSE rows * cols

CopyCount ==
    IF app = "ClothApp" THEN CopyCountOf(app, NumVertices, 0, 0)
    ELSE CopyCountOf(app, NumVertices, environment_data.sim_params.grid_rows,
                     environment_data.sim_params.grid_cols)

\* variant: the copy lands in the obstacle's vertex buffer
CopyDestination_Sphere == "sphere_vertex_buffer"

CopyDestination == "vertex_buffer"

\* copy_buffer_to_buffer(storage, 0, vertex, 0, size), after the compute pass
CopyBufferToBuffer ==
    /\ pc = "compute"
    /\ ComputePassDone
    /\ buffers' = [buffers EXCEPT ![CopyDestination] =
                      [i \in DOMAIN @ |->
                          IF i < CopyCount /\ i \in DOMAIN buffers.vertex_storage_buffer
                          THEN buffers.vertex_storage_buffer[i] ELSE @[i]]]
    /\ pc' = "idle"
    /\ UNCHANGED << index_buffer, drawn, ctor, app, lifecycle, environment_data, uniform, done, invoked, oob_done,
                    steps, delta_time, gen_start, generations, ref_storage, compute_bind_group,
                    prev_binding, camera_radius, rendered, submitted, queue >>

\* variant: the range drawn grows with every step
DrawCount_PerStep(a, num_indices, rows, cols) ==
    IF a = "ClothApp" THEN num_indices + steps ELSE 6 * (rows - 1) * (cols - 1) + steps

\* variant: the draw covers six indices per vertex
DrawCount_PerVertex(a, num_indices, rows, cols) ==
    IF a = "ClothApp" THEN num_indices ELSE 6 * rows * cols

\* the range of draw_indexed for the cloth: 0..self.num_indices in ClothApp,
\* 0..6 * (grid_rows - 1) * (grid_cols - 1) in InstanceApp
DrawCount(a, num_indices, rows, cols) ==
    IF a = "ClothApp" THEN num_indices ELSE 6 * (rows - 1) * (cols - 1)

\* App::render: draws the vertex buffer; queued behind the submitted update
Render ==
    /\ lifecycle = "running"
    /\ pc = "idle"
    /\ rendered' = {buffers.vertex_buffer}
    /\ drawn' = IF app = "ClothApp"
                THEN DrawCount(app, ctor.num_indices, ctor.height, ctor.width)
                ELSE DrawCount(app, ctor.num_indices, environment_data.sim_params.grid_rows,
                               environment_data.sim_params.grid_cols)
    /\ UNCHANGED << index_buffer, ctor, app, lifecycle, environment_data, uniform, buffers, pc, done,
                    invoked, oob_done, steps, delta_time, gen_start, generations, ref_storage,
                    compute_bind_group, prev_binding, camera_radius, submitted, queue >>

\* mouse-wheel notches handed to input
ScrollInputs == {-10, 10}

Max(a, b) == IF a >= b THEN a ELSE b

Min(a, b) == IF a <= b THEN a ELSE b

\* variant: scrolling also lifts the drawn cloth
Input_MovesCloth(scroll) ==
    /\ lifecycle = "running"
    /\ LET new_radius == IF app = "InstanceApp"
                         THEN Min(Max(camera_radius - scroll \div 10, 3), 500)
                         ELSE camera_radius - scroll \div 10
       IN /\ new_radius \in 3 .. MaxCameraRadius
          /\ camera_radius' = new_radius
    /\ buffers' = [buffers EXCEPT !.vertex_buffer =
                      [i \in DOMAIN @ |->
                          [@[i] EXCEPT !.position = VAdd(@, << 0, scroll, 0 >>)]]]
    /\ UNCHANGED << index_buffer, drawn, ctor, app, lifecycle, environment_data, uniform, pc,
                    done, invoked, oob_done, steps, delta_time, gen_start, generations,
                    ref_storage, compute_bind_group, prev_binding, rendered, submitted, queue >>

\* App::input: the camera only; InstanceApp clamps the radius to [3, 500]
Input(scroll) ==
    /\ lifecycle = "running"
    /\ LET new_radius == IF app = "InstanceApp"
                         THEN Min(Max(camera_radius - scroll \div 10, 3), 500)
                         ELSE camera_radius - scroll \div 10
       IN /\ new_radius \in 3 .. MaxCameraRadius
          /\ camera_radius' = new_radius
    /\ UNCHANGED << index_buffer, drawn, ctor, app, lifecycle, environment_data, uniform, buffers, pc, done,
                    invoked, oob_done, steps, delta_time, gen_start, generations, ref_storage,
                    compute_bind_group, prev_binding, rendered, submitted, queue >>

Next ==
    \/ \E dt \in DtInputs : Update(dt)
    \/ BeginComputePass
    \/ \E i \in DOMAIN invoked : Invoke(i)
    \/ InvokeOutOfRange
    \/ CopyBufferToBuffer
    \/ Render
    \/ \E scroll \in ScrollInputs : Input(scroll)

Spec == Init /\ [][Next]_vars

SpecCfg == InitCfg /\ [][Next]_vars

----------------------------------------------------------------------------
(* App::new step by step, and the sizes the first frame uses, for grids of *)
(* any size                                                                *)

\* ClothApp: << rows, cols >> of steps the two ranges hold; << 60, 60 >> is
\* -1.5..1.5 by -1.5..1.5
ClothGridInputs == { << 2, 2 >>, << 2, 3 >>, << 3, 6 >>, << 60, 60 >> }

\* InstanceApp: << grid_rows, grid_cols >>
InstanceGridInputs == { << 1, 1 >>, << 2, 2 >>, << 2, 3 >>, << 8, 8 >>, << 5, 13 >>,
                        << 13, 10 >> }

\* before App::new has returned nothing of the running app exists
NotYetBuilt(a, rows, cols) ==
    [ lifecycle |-> "constructing",
      environment_data |-> << >>,
      uniform |-> << >>,
      buffers |-> [ vertex_storage_buffer |-> << >>, vertex_buffer |-> << >>,
                    sphere_vertex_buffer |-> << >> ],
      compute_bind_group |-> [storage |-> "none"],
      camera_radius |-> 3,
      index_buffer |-> << >>,
      ctor |-> CtorStart(a, rows, cols) ]

InitGrid ==
    \/ \E g \in ClothGridInputs : InitFrom("ClothApp", NotYetBuilt("ClothApp", g[1], g[2]))
    \/ \E g \in InstanceGridInputs :
           InitFrom("InstanceApp", NotYetBuilt("InstanceApp", g[1], g[2]))

RunningVars == << app, lifecycle, environment_data, uniform, buffers, pc, done, invoked,
                 oob_done, steps, delta_time, gen_start, generations, ref_storage,
                 compute_bind_group, prev_binding, camera_radius, rendered,
                 submitted, queue >>

\* the Vertex made from a pushed position
ClothVertex(position) == [position |-> position, velocity |-> Zero3]

\* body of the inner while loop: positions.push(...); x += step
PushPosition ==
    /\ ctor.kind = "ClothApp"
    /\ ctor.pc = "positions"
    /\ ctor.z < ctor.height_range.end
    /\ ctor.x < ctor.width_range.end
    /\ ctor' = [ctor EXCEPT
                   !.last = [index |-> ctor.n, row |-> ctor.row, col |-> ctor.col,
                             vertex |-> ClothVertex(
                                 << F32Sub(ctor.x, MidOf(ctor.width_range)), 0,
                                    F32Sub(ctor.z, MidOf(ctor.height_range)) >>)],
                   !.n = @ + 1,
                   !.col = @ + 1,
                   !.x = F32Add(@, step_f32)]
    /\ UNCHANGED << RunningVars, index_buffer, drawn >>

\* the inner loop ends: z += step, and the next pass starts x over
NextRow ==
    /\ ctor.kind = "ClothApp"
    /\ ctor.pc = "positions"
    /\ ctor.z < ctor.height_range.end
    /\ ~(ctor.x < ctor.width_range.end)
    /\ ctor' = [ctor EXCEPT !.z = F32Add(@, step_f32), !.row = @ + 1,
                            !.x = ctor.width_range.start, !.col = 0]
    /\ UNCHANGED << RunningVars, index_buffer, drawn >>

\* the outer loop ends: let width = ..., let height = ...
ComputeGridSize ==
    /\ ctor.kind = "ClothApp"
    /\ ctor.pc = "positions"
    /\ ~(ctor.z < ctor.height_range.end)
    /\ ctor' = [ctor EXCEPT !.width = GridSizeOf(ctor.width_range),
                            !.height = GridSizeOf(ctor.height_range),
                            !.pc = "indices"]
    /\ UNCHANGED << RunningVars, index_buffer, drawn >>

\* one item of the flat_map over (0..grid_rows) x (0..grid_cols)
PushFabricVertex ==
    /\ ctor.kind = "InstanceApp"
    /\ ctor.pc = "positions"
    /\ ctor.row < ctor.height
    /\ ctor' = [ctor EXCEPT
                   !.last = [index |-> ctor.n, row |-> ctor.row, col |-> ctor.col,
                             vertex |-> FabricVertex(ctor.row, ctor.col,
                                                     ctor.height, ctor.width)],
                   !.n = @ + 1,
                   !.col = IF ctor.col + 1 = ctor.width THEN 0 ELSE ctor.col + 1,
                   !.row = IF ctor.col + 1 = ctor.width THEN @ + 1 ELSE @]
    /\ UNCHANGED << RunningVars, index_buffer, drawn >>

\* .collect(): the fabric vertices are complete
CollectFabricVertices ==
    /\ ctor.kind = "InstanceApp"
    /\ ctor.pc = "positions"
    /\ ctor.row = ctor.height
    /\ ctor' = [ctor EXCEPT !.pc = "indices"]
    /\ UNCHANGED << RunningVars, index_buffer, drawn >>

\* a cell is left for the index loops
CellLeft == ctor.iz < ctor.height - 1 /\ ctor.width > 1

\* body of the inner index loop of either app: the six pushes of one cell
PushCellIndices ==
    /\ ctor.pc = "indices"
    /\ CellLeft
    /\ index_buffer' = index_buffer \o CellIndices(ctor.iz * ctor.width + ctor.ix, ctor.width)
    /\ ctor' = [ctor EXCEPT
                   !.ix = IF ctor.ix + 1 = ctor.width - 1 THEN 0 ELSE ctor.ix + 1,
                   !.iz = IF ctor.ix + 1 = ctor.width - 1 THEN @ + 1 ELSE @]
    /\ UNCHANGED << RunningVars, drawn >>

\* the index loops end: the index buffer is created from the list and
\* (ClothApp) num_indices = indices.len()
CreateIndexBuffer ==
    /\ ctor.pc = "indices"
    /\ ~CellLeft
    /\ ctor' = [ctor EXCEPT !.num_indices = Len(index_buffer), !.pc = "built"]
    /\ UNCHANGED << RunningVars, index_buffer, drawn >>

\* the first update: dispatch_workgroups and the size of the copy
Dispatch ==
    /\ ctor.pc = "built"
    /\ ctor' = [ctor EXCEPT
                   !.workgroup_count = WorkgroupCountOf(ctor.kind, ctor.n, ctor.grid_height,
                                                        ctor.grid_width),
                   !.copy_count = CopyCountOf(ctor.kind, ctor.n, ctor.grid_height,
                                              ctor.grid_width),
                   !.pc = "dispatched"]
    /\ UNCHANGED << RunningVars, index_buffer, drawn >>

\* the first render: draw_indexed of the cloth
Draw ==
    /\ ctor.pc = "dispatched"
    /\ drawn' = DrawCount(ctor.kind, ctor.num_indices, ctor.grid_height, ctor.grid_width)
    /\ ctor' = [ctor EXCEPT !.pc = "drawn"]
    /\ UNCHANGED << RunningVars, index_buffer >>

NextGrid ==
    \/ PushPosition
    \/ NextRow
    \/ ComputeGridSize
    \/ PushFabricVertex
    \/ CollectFabricVertices
    \/ PushCellIndices
    \/ CreateIndexBuffer
    \/ Dispatch
    \/ Draw

SpecGrid == InitGrid /\ [][NextGrid]_vars

----------------------------------------------------------------------------
(* Properties *)

Storage == buffers.vertex_storage_buffer

GridRows == KernelParams(app, uniform).rows

GridCols == KernelParams(app, uniform).cols

\* the buffers as construction left them
InitialBuffers == Constructed(app, sphere_radius, GridCols).buffers

\* C1: within a step every neighbour read returns the value the vertex had
\* when the step began: whatever invocation runs next, the buffer the kernel
\* reads still holds the start-of-step state of each of its neighbours.
C1_NeighbourReadsStartOfStep ==
    pc = "compute" =>
        \A i \in InRangeIds \ done :
            \A n \in Neighbours(i, GridRows, GridCols) :
                buffers[KernelReadBuffer][n] = gen_start[n]

\* C2: what a render draws is a whole generation: the vertex buffer holds the
\* complete pre-step state while a compute pass runs, the complete post-step
\* state once the step is over, and every frame drawn is one of the states
\* the storage buffer had at the end of a compute pass (or at construction).
C2_RenderSeesWholeGeneration ==
    /\ pc = "compute" => buffers.vertex_buffer = gen_start
    /\ pc = "idle" => buffers.vertex_buffer = Storage /\ Storage \in generations
    /\ rendered \subseteq generations

C2_Witness ==
    /\ steps > 0
    /\ pc = "idle"
    /\ rendered = {Storage}
    /\ Storage # InitialBuffers.vertex_storage_buffer

\* C3: a step runs the kernel exactly once for every vertex index of the
\* grid: never twice while the pass runs, and once each when it is over.
C3_EachVertexOnce ==
    /\ \A i \in VertexIds(GridRows * GridCols) : i \in DOMAIN invoked /\ invoked[i] <= 1
    /\ (pc = "idle" /\ steps > 0) =>
           \A i \in VertexIds(GridRows * GridCols) : invoked[i] = 1

C3_Witness ==
    /\ pc = "idle"
    /\ steps > 0
    /\ \A i \in VertexIds(GridRows * GridCols) : invoked[i] = 1
    /\ OutOfRangeIds # {}

\* C4: two runs from the same initial buffer with the same dt per step hold
\* the same vertex buffer after each step, however the invocations of a step
\* are scheduled (the second run schedules them in index order).
C4_Determinism ==
    pc = "idle" => buffers.vertex_buffer = ref_storage

\* C5: a vertex constructed with its fixed flag set keeps the position and
\* the velocity it was constructed with, in every buffer, after any steps.
C5_FixedVerticesKeepState ==
    \A b \in DOMAIN InitialBuffers :
        \A i \in DOMAIN InitialBuffers[b] :
            IsFixed(app, InitialBuffers[b][i]) =>
                /\ buffers[b][i].position = InitialBuffers[b][i].position
                /\ buffers[b][i].velocity = InitialBuffers[b][i].velocity

C5_Witness ==
    /\ steps = MaxSteps
    /\ pc = "idle"
    /\ \E i \in DOMAIN InitialBuffers.sphere_vertex_buffer :
           IsFixed(app, buffers.sphere_vertex_buffer[i])
    /\ buffers.vertex_buffer # InitialBuffers.vertex_buffer

\* the maximum length EnvironmentData::new configures for a spring class
MaxLengthOf(class) ==
    CASE class = "structural" -> structural_max_length
      [] class = "shear" -> shear_max_length
      [] class = "bending" -> bending_max_length

\* C6: after every step each spring incident on a non-fixed vertex is no
\* longer than the maximum length of its class (structural, shear, bending).
C6_StretchBound ==
    (pc = "idle" /\ steps > 0 /\ KernelParams(app, uniform).clamp) =>
        \A i \in VertexIds(GridRows * GridCols) :
            ~IsFixed(app, Storage[i]) =>
                \A k \in 1 .. Len(ValidSprings(i, GridRows, GridCols)) :
                    LET s == ValidSprings(i, GridRows, GridCols)[k]
                        n == NeighbourIndex(i, s.off, GridCols)
                    IN Norm(VSub(Storage[i].position, Storage[n].position))
                         <= MaxLengthOf(s.class)

\* C7: no vertex is inside the collision sphere, at construction or after
\* any step: its distance to the centre is at least the radius, less the
\* tolerance.
C7_OutsideSphere ==
    LET P == KernelParams(app, uniform)
    IN \A i \in DOMAIN Storage :
           Norm(VSub(Storage[i].position, P.center)) >= P.radius - Tolerance

C7_Witness ==
    LET P == KernelParams(app, uniform)
    IN /\ steps > 0
       /\ P.radius > 0
       /\ \E i \in DOMAIN Storage :
              /\ Norm(VSub(Storage[i].position, P.center)) <= P.radius + Tolerance
              /\ Storage[i].position # InitialBuffers.vertex_storage_buffer[i].position

\* C8: a configuration with a non-positive vertex mass, a negative sphere
\* radius, or fewer than two rows or columns is rejected at construction,
\* and no step is ever dispatched with it.
InvalidConfiguration ==
    LET P == KernelParams(app, uniform)
    IN \/ P.radius < 0
       \/ P.rows < 2
       \/ P.cols < 2
       \/ \E i \in DOMAIN Storage : VertexMass(app, Storage[i], uniform) <= 0

C8_InvalidConfigurationRejected ==
    InvalidConfiguration => (lifecycle = "config_error" /\ steps = 0)

\* C9: while a step's dispatch runs, the time step the kernel reads is the
\* delta_time that was passed to that update call.
C9_KernelReadsPassedDt ==
    pc = "compute" => KernelParams(app, uniform).dt = delta_time

\* C10: the vertex state is two generations that swap roles after each step:
\* a step reads one buffer and writes the other, and the next step reads the
\* buffer this one wrote and writes the buffer this one read.
C10_PingPong ==
    (pc = "compute" /\ steps >= 2) =>
        /\ KernelReadBuffer # KernelWriteBuffer
        /\ KernelReadBuffer = prev_binding.write
        /\ KernelWriteBuffer = prev_binding.read

\* C11: steps are strictly sequential: while the invocations of a step run,
\* the state that step started from is the complete result of the step
\* before it (every write of that step was visible when this one began),
\* and the copy of that result is in the vertex buffer.
C11_StepsSequential ==
    pc = "compute" =>
        /\ gen_start \in generations
        /\ buffers.vertex_buffer = gen_start

C11_Witness ==
    /\ pc = "compute"
    /\ steps = 1
    /\ done # {}
    /\ done # InRangeIds
    /\ queue # << >>

\* App::new has run its index loops
IndicesBuilt == ctor.pc \in {"built", "dispatched", "drawn"}

\* consecutive triples of the index list
TrianglesOf(list) ==
    { << list[3 * j + 1], list[3 * j + 2], list[3 * j + 3] >> : j \in 0 .. (Len(list) \div 3) - 1 }

\* C12: for rows, cols >= 2 the index list built by the index loops holds
\* 6*(rows-1)*(cols-1) indices, and its triangles are exactly, for each cell
\* with top-left index t = row*cols+col, (t, t+cols, t+cols+1) and
\* (t, t+cols+1, t+1).
C12_TwoTrianglesPerCell ==
    (IndicesBuilt /\ ctor.height >= 2 /\ ctor.width >= 2) =>
        LET rows == ctor.height
            cols == ctor.width
        IN /\ Len(index_buffer) = 6 * (rows - 1) * (cols - 1)
           /\ TrianglesOf(index_buffer) =
                  UNION { LET t == row * cols + col
                          IN { << t, t + cols, t + cols + 1 >>, << t, t + cols + 1, t + 1 >> } :
                          row \in 0 .. rows - 2, col \in 0 .. cols - 2 }

C12_Witness ==
    /\ ctor.pc = "built"
    /\ ctor.kind = "InstanceApp"
    /\ ctor.height = 13
    /\ ctor.width = 10
    /\ Len(index_buffer) = 648

\* the f32 reached from x by k additions of step (an addition that rounds
\* back to x leaves it there for good)
RECURSIVE F32Steps(_, _)
F32Steps(x, k) ==
    IF k = 0 THEN x
    ELSE LET next == F32Add(x, step_f32)
         IN IF next > x THEN F32Steps(next, k - 1) ELSE next

\* position of the vertex of (row, col), from the grid's origin and spacing alone
PositionAt(c, row, col) ==
    IF c.kind = "ClothApp"
    THEN << F32Sub(F32Steps(c.width_range.start, col), MidOf(c.width_range)), 0,
            F32Sub(F32Steps(c.height_range.start, row), MidOf(c.height_range)) >>
    ELSE FabricVertex(row, col, c.grid_height, c.grid_width).position

\* height coordinate of the plane the cloth is laid out in
PlaneHeight(c) == IF c.kind = "ClothApp" THEN 0 ELSE 2000

\* C13: grid construction yields exactly rows*cols vertices, the vertex at
\* linear index row*cols+col has the position given by (row, col, spacing,
\* origin), all vertices have the same height coordinate, and every velocity
\* is zero.
C13_GridConstruction ==
    LET rows == ctor.grid_height
        cols == ctor.grid_width
    IN /\ ctor.last # << >> =>
              /\ ctor.last.vertex.position =
                     PositionAt(ctor, ctor.last.index \div cols, ctor.last.index % cols)
              /\ ctor.last.vertex.position[2] = PlaneHeight(ctor)
              /\ ctor.last.vertex.velocity = Zero3
       /\ IndicesBuilt => ctor.n = rows * cols

\* C14: every vertex mass is strictly positive at construction and has that
\* value after any sequence of steps, in the state the kernel works on and
\* in the copy that is drawn.
C14_MassPositiveAndFixed ==
    LET built == Constructed(app, sphere_radius, GridCols)
    IN \A name \in {"vertex_storage_buffer", "vertex_buffer"} :
           \A i \in DOMAIN buffers[name] :
               /\ VertexMass(app, built.buffers[name][i], built.uniform) > 0
               /\ VertexMass(app, buffers[name][i], uniform)
                      = VertexMass(app, built.buffers[name][i], built.uniform)
               /\ VertexMass(app, buffers[name][i], environment_data)
                      = VertexMass(app, built.buffers[name][i], built.environment_data)

C14_Witness ==
    /\ steps = MaxSteps
    /\ pc = "idle"
    /\ Storage # InitialBuffers.vertex_storage_buffer
    /\ buffers.vertex_buffer = Storage

\* C15: the index list is fixed after construction: whatever inputs, updates
\* and renders have run, the index buffer and num_indices are as constructed,
\* and every draw of the cloth covers the same number of indices, the
\* length of that list.
C15_IndexListFixed ==
    LET built == Constructed(app, sphere_radius, GridCols)
    IN /\ index_buffer = built.index_buffer
       /\ ctor.num_indices = built.ctor.num_indices
       /\ rendered # {} => drawn = Len(built.index_buffer)

C15_Witness ==
    /\ steps = MaxSteps
    /\ pc = "idle"
    /\ camera_radius # 3
    /\ rendered = {buffers.vertex_buffer}
    /\ buffers.vertex_buffer # InitialBuffers.vertex_buffer
    /\ drawn > 0

\* the parameters other than the time step
WithoutDeltaTime(env) == [f \in DOMAIN env \ {"delta_time"} |-> env[f]]

\* C16: staging a time step changes only the time-step field: in ClothApp,
\* after any sequence of update calls, every other parameter of the
\* environment data (CPU-side, staged in the queue, in the uniform buffer)
\* has the value set at construction.
C16_OnlyDeltaTimeChanges ==
    app = "ClothApp" =>
        LET built == WithoutDeltaTime(Constructed(app, sphere_radius, GridCols).environment_data)
        IN /\ WithoutDeltaTime(environment_data) = built
           /\ WithoutDeltaTime(uniform) = built
           /\ \A k \in DOMAIN queue : WithoutDeltaTime(queue[k].uniform) = built

C16_Witness ==
    /\ app = "ClothApp"
    /\ steps = MaxSteps
    /\ environment_data.delta_time
           # Constructed(app, sphere_radius, GridCols).environment_data.delta_time
    /\ uniform.delta_time = environment_data.delta_time

\* C17: after every update the vertex buffer equals the storage buffer's
\* post-step state at every vertex index in [0, rows*cols): the copy leaves
\* no vertex at a stale value.
C17_CopyCoversAllVertices ==
    (pc = "idle" /\ steps > 0) =>
        /\ Storage \in generations
        /\ \A i \in VertexIds(GridRows * GridCols) :
               /\ i \in DOMAIN Storage
               /\ i \in DOMAIN buffers.vertex_buffer
               /\ buffers.vertex_buffer[i] = Storage[i]

C17_Witness ==
    /\ pc = "idle"
    /\ steps = 1
    /\ queue = << >>
    /\ \A i \in VertexIds(GridRows * GridCols) :
           buffers.vertex_buffer[i] # InitialBuffers.vertex_buffer[i]

\* C18: in InstanceApp's 64-wide dispatch, for rows*cols >= 1, the workgroup
\* count w is the least that covers the grid: 64*w >= rows*cols and
\* 64*(w-1) < rows*cols, so at most 63 invocations are out of range.
C18_LeastCoveringDispatch ==
    (ctor.kind = "InstanceApp" /\ ctor.pc \in {"dispatched", "drawn"}
        /\ ctor.grid_height * ctor.grid_width >= 1) =>
        LET total == ctor.grid_height * ctor.grid_width
            w == ctor.workgroup_count
        IN /\ 64 * w >= total
           /\ 64 * (w - 1) < total
           /\ 64 * w - total <= 63

C18_Witness ==
    /\ ctor.kind = "InstanceApp"
    /\ ctor.pc = "dispatched"
    /\ ctor.grid_height * ctor.grid_width = 130
    /\ ctor.n = 130
    /\ ctor.workgroup_count = 3

\* C19: every index of the generated index list refers to an existing vertex
\* (0 <= index < rows*cols), and the range drawn for the cloth at render,
\* 6*(rows-1)*(cols-1), is the length of the index list built at construction.
C19_IndicesInRangeAndDrawn ==
    LET rows == ctor.grid_height
        cols == ctor.grid_width
    IN /\ IndicesBuilt =>
              \A k \in DOMAIN index_buffer :
                  /\ 0 <= index_buffer[k]
                  /\ index_buffer[k] < rows * cols
                  /\ index_buffer[k] < ctor.n
       /\ ctor.pc = "drawn" =>
              /\ drawn = 6 * (rows - 1) * (cols - 1)
              /\ drawn = Len(index_buffer)

C19_Witness ==
    /\ ctor.pc = "drawn"
    /\ ctor.kind = "InstanceApp"
    /\ ctor.grid_height = 13
    /\ ctor.grid_width = 10
    /\ drawn = 648
    /\ index_buffer[Len(index_buffer) - 1] = 13 * 10 - 1

\* C20: in ClothApp the three grid sizes agree: the number of vertices the
\* position loops generate is width*height, the size the index list is built
\* with, which is grid_width*grid_height, the size handed to the kernel.
C20_GridSizesAgree ==
    (ctor.kind = "ClothApp" /\ IndicesBuilt) =>
        /\ ctor.n = ctor.width * ctor.height
        /\ ctor.width * ctor.height = ctor.grid_width * ctor.grid_height
        /\ ctor.pc \in {"dispatched", "drawn"} => ctor.copy_count = ctor.width * ctor.height

\* C21: only a step mutates the vertex state: an input or a render call
\* leaves every buffer (each vertex's position and velocity, the vertex
\* count), the simulation parameters and the staged submissions as they
\* were, and a render consumes the vertex buffer as it stands, so between
\* two steps every render sees the same state.
C21_OnlyStepMutates ==
    [][ (Render \/ \E scroll \in ScrollInputs : Input(scroll)) =>
            /\ buffers' = buffers
            /\ DOMAIN buffers'.vertex_storage_buffer = DOMAIN buffers.vertex_storage_buffer
            /\ environment_data' = environment_data
            /\ uniform' = uniform
            /\ queue' = queue
            /\ steps' = steps
            /\ rendered' \in {rendered, {buffers.vertex_buffer}} ]_vars

C21_Witness ==
    /\ steps = 1
    /\ submitted = 1
    /\ pc = "idle"
    /\ camera_radius # 3
    /\ rendered = {buffers.vertex_buffer}
    /\ buffers.vertex_buffer # InitialBuffers.vertex_buffer
    /\ drawn > 0
====
